---- MODULE Spec2Model ----
(***************************************************************************)
(* Model of ezrpc: the cooperative mutex (util/mutex_state_machine.rs),    *)
(* the response dispatcher built on it (common/dispatcher.rs), the         *)
(* dispatch of the generated tower service (tower/receiver_type.rs,        *)
(* tower/method_data.rs, tower/generator.rs) and the macro that generates  *)
(* it (tower/generator.rs, tower/response_data.rs, tower/result_data.rs).  *)
(***************************************************************************)
EXTENDS Integers, Sequences, FiniteSets, TLC

(***************************************************************************)
(* Bounds of the model.                                                    *)
(***************************************************************************)
\* Handles of a Dispatcher (the original and its clones).
MaxHandles == 2
\* Handles of a MutexStateMachine driven directly (the original and its clones).
MaxPollers == 3
\* Request identifiers.
MaxId == 2
\* Oneshot channels (Sender/Receiver pairs) handed to registrations.
MaxSlots == 2
\* Response payloads.
MaxResp == 2
\* Methods of a generated interface.
MaxMethods == 2
\* Futures returned by Service::call that are alive at the same time.
MaxCalls == 2
\* Types that occur in the methods' return types, besides the unit type.
MaxTypes == 1

DispatcherHandles == 1..MaxHandles
Pollers == 1..MaxPollers
Handles == DispatcherHandles \cup Pollers
Ids == 1..MaxId
Slots == 1..MaxSlots
Responses == 1..MaxResp

\* Absent value of an Option / an empty HashMap bucket.
None == 0

VARIABLES
    handles,          \* the handles created so far (the original and its clones)
    data,             \* data[h]: the Arc<Mutex<T>> handle h points at, named by the handle that created it
    lock_future,      \* lock_future[h]: MutexStateMachine.lock_future is Some
    is_acquired,      \* is_acquired[m]: the lock of mutex m is taken (a MutexOwnedGuard is live)
    guard,            \* guard[h]: number of live MutexOwnedGuards obtained through h (Dispatcher.guard is Some iff 1)
    pending_requests, \* pending_requests[m][id]: the Sender stored under id in the HashMap behind mutex m, or None
    sender,           \* sender[s]: "none" (not created), "pending" (in the table), "sent", "dropped"
    received,         \* received[s]: the response deposited in channel s, or None
    receiver_alive,   \* receiver_alive[s]: the Receiver of channel s has not been dropped
    deliveries,       \* deliveries[s]: number of responses sent on Sender s (history)
    last,             \* the last operation (history): its kind, its arguments, the Sender it stored
                      \* or found, whether it started an acquisition attempt, whether its handle
                      \* held the guard already, its result
    methods,          \* Generator.methods: the MethodData of the interface the Service was generated for
    call,             \* call[t]: the state of the t-th future returned by Service::call
    readers,          \* number of live read guards of the Service's RwLock
    writer,           \* a write guard of the Service's RwLock is live
    item,             \* the methods of the `impl` block the macro is applied to
    generator,        \* the Generator made of item (or the abort of the macro)
    exchange          \* exchange[t]: a call of a Service::<method> helper: the method's own return
                      \* value, the output of the future of Service::call, the helper's return value

mvars == <<handles, data, lock_future, is_acquired, guard>>
dvars == <<pending_requests, sender, received, receiver_alive, deliveries>>
rvars == <<methods, call, readers, writer>>
cvars == <<item, generator, exchange>>
vars == <<handles, data, lock_future, is_acquired, guard, pending_requests, sender,
          received, receiver_alive, deliveries, last, methods, call, readers, writer,
          item, generator, exchange>>

NoOp == [op |-> "init", id |-> 0, resp |-> 0, slot |-> 0, started |-> FALSE, held |-> FALSE,
         result |-> "none"]

(***************************************************************************)
(* MutexStateMachine                                                       *)
(***************************************************************************)

\* A future of Service::call that does not exist (yet, or any more).
Calls == 1..MaxCalls
NoCall == [pc |-> "idle", method |-> 0, mode |-> "none", ready |-> "none", contended |-> FALSE]

\* No Service has been generated.
NoService ==
    /\ methods = <<>>
    /\ call = [t \in Calls |-> NoCall]
    /\ readers = 0
    /\ writer = FALSE

\* A value: a payload of some type inside a sequence of wrappers (Ok, Err, a
\* variant of the Response enum), the outermost first.
NoValue == [wrap |-> <<>>, type |-> None]

\* A Generator that has not been made.
NoGenerator ==
    [status |-> "none", error |-> "", methods |-> <<>>, request |-> <<>>,
     response |-> <<>>, receiver_type |-> <<>>]

\* No helper of the Service has been called.
NoExchange ==
    [pc |-> "idle", method |-> 0, native |-> NoValue, response |-> NoValue,
     returned |-> NoValue, panic |-> ""]

\* The macro has not been applied to anything.
NoMacro ==
    /\ item = <<>>
    /\ generator = NoGenerator
    /\ exchange = [t \in Calls |-> NoExchange]

\* MutexStateMachine::new / Dispatcher::new: one handle, a fresh mutex around
\* an empty HashMap, no acquisition attempt, no guard.
New ==
    /\ handles = {1}
    /\ data = [h \in Handles |-> 1]
    /\ lock_future = [h \in Handles |-> FALSE]
    /\ is_acquired = [m \in Handles |-> FALSE]
    /\ guard = [h \in Handles |-> 0]
    /\ pending_requests = [m \in Handles |-> [i \in Ids |-> None]]
    /\ sender = [s \in Slots |-> "none"]
    /\ received = [s \in Slots |-> None]
    /\ receiver_alive = [s \in Slots |-> TRUE]
    /\ deliveries = [s \in Slots |-> 0]
    /\ last = NoOp

Init == New /\ NoService /\ NoMacro

\* The mutex a clone of handle h points at: `data: self.data.clone()` shares the
\* Arc, so it is the same mutex.
CloneDataFresh(h, new) == new
CloneData(h, new) == data[h]

\* The acquisition state of a clone of handle h: `lock_future: None`.
CloneLockFutureCopied(h) == lock_future[h]
CloneLockFuture(h) == FALSE

\* impl Clone for MutexStateMachine: same data, lock_future: None.  The new
\* handle takes the next free handle number.
CloneHandle(h, new) ==
    /\ h \in handles
    /\ new = Cardinality(handles) + 1
    /\ handles' = handles \cup {new}
    /\ data' = [data EXCEPT ![new] = CloneData(h, new)]
    /\ lock_future' = [lock_future EXCEPT ![new] = CloneLockFuture(h)]
    /\ guard' = [guard EXCEPT ![new] = 0]
    /\ UNCHANGED is_acquired

\* Outcomes of polling an acquisition attempt (MutexOwnedGuardFuture) on mutex m.
\* The lock is fast_async_mutex's; what this code relies on is its contract: an
\* attempt is never granted while a guard is live.  Whether a free lock is granted
\* to this attempt or to another one first is the lock's queueing discipline, so
\* a poll of a free lock may grant or defer.
LockFuturePoll(m) == IF is_acquired[m] THEN {"Pending"} ELSE {"Ready", "Pending"}

\* get_or_insert_with(|| data.lock_owned()): a new attempt is started only when
\* none is stored.
StartsAttempt(h) == ~lock_future[h]

\* MutexStateMachine::poll_lock with outcome r: get_or_insert_with stores an
\* attempt if none is stored, the attempt is polled, and on Ready the stored
\* attempt is cleared and the guard returned.
PollLockKeepFuture(h, r) ==
    /\ r \in LockFuturePoll(data[h])
    /\ lock_future' = [lock_future EXCEPT ![h] = TRUE]
    /\ is_acquired' = IF r = "Ready" THEN [is_acquired EXCEPT ![data[h]] = TRUE] ELSE is_acquired
PollLock(h, r) ==
    /\ r \in LockFuturePoll(data[h])
    /\ lock_future' = [lock_future EXCEPT ![h] = (r = "Pending")]
    /\ is_acquired' = IF r = "Ready" THEN [is_acquired EXCEPT ![data[h]] = TRUE] ELSE is_acquired

\* Drop of a MutexOwnedGuard obtained through h: the lock is released.
Unlock(h) == is_acquired' = [is_acquired EXCEPT ![data[h]] = FALSE]

(***************************************************************************)
(* The mutex driven directly by its pollers.                               *)
(***************************************************************************)
MutexClone(h) ==
    /\ UNCHANGED <<rvars, cvars>>
    /\ \E new \in Pollers : CloneHandle(h, new)
    /\ last' = [NoOp EXCEPT !.op = "clone", !.result = "Ok"]
    /\ UNCHANGED dvars

\* A poller calls poll_lock whenever it likes, also while it holds a guard.
MutexPollLock(h) ==
    /\ UNCHANGED <<rvars, cvars>>
    /\ h \in handles
    /\ \E r \in {"Ready", "Pending"} :
        /\ PollLock(h, r)
        /\ guard' = [guard EXCEPT ![h] = IF r = "Ready" THEN @ + 1 ELSE @]
        /\ last' = [NoOp EXCEPT !.op = "poll_lock", !.started = StartsAttempt(h), !.result = r]
    /\ UNCHANGED <<handles, data>>
    /\ UNCHANGED dvars

GuardDrop(h) ==
    /\ UNCHANGED <<rvars, cvars>>
    /\ h \in handles
    /\ guard[h] > 0
    /\ guard' = [guard EXCEPT ![h] = @ - 1]
    /\ Unlock(h)
    /\ last' = [NoOp EXCEPT !.op = "drop_guard", !.result = "Ok"]
    /\ UNCHANGED <<handles, data, lock_future>>
    /\ UNCHANGED dvars

NextMutex ==
    \E h \in Handles : MutexClone(h) \/ MutexPollLock(h) \/ GuardDrop(h)

SpecMutex == Init /\ [][NextMutex]_vars

(***************************************************************************)
(* Dispatcher                                                              *)
(***************************************************************************)

\* impl Clone for Dispatcher: pending_requests.clone(), guard: None.
DispatcherClone(h) ==
    /\ UNCHANGED <<rvars, cvars>>
    /\ \E new \in DispatcherHandles : CloneHandle(h, new)
    /\ last' = [NoOp EXCEPT !.op = "clone", !.result = "Ok"]
    /\ UNCHANGED dvars

\* poll_ready (the same body for both Sink impls): when no guard is held,
\* poll_lock is polled and ready! returns Pending unless it yields the guard;
\* when the guard is already held nothing is polled.
PollReadyNoLock(h, r) ==
    /\ r = "Ready"
    /\ guard' = [guard EXCEPT ![h] = 1]
    /\ UNCHANGED <<lock_future, is_acquired>>
PollReadyAlwaysPolls(h, r) ==
    /\ PollLock(h, r)
    /\ guard' = [guard EXCEPT ![h] = IF r = "Ready" THEN 1 ELSE @]
PollReady(h, r) ==
    IF guard[h] = 0
    THEN /\ PollLock(h, r)
         /\ guard' = [guard EXCEPT ![h] = IF r = "Ready" THEN 1 ELSE 0]
    ELSE /\ r = "Ready"
         /\ UNCHANGED <<lock_future, is_acquired, guard>>

\* Sink<(Id, Sender<Response>)>::poll_ready
RegPollReady(h) ==
    /\ UNCHANGED <<rvars, cvars>>
    /\ h \in handles
    /\ \E r \in {"Ready", "Pending"} :
        /\ PollReady(h, r)
        /\ last' = [NoOp EXCEPT !.op = "poll_ready", !.result = r,
                                !.started = (StartsAttempt(h) /\
                                             (lock_future'[h] \/ guard'[h] # guard[h])),
                                !.held = (guard[h] > 0)]
    /\ UNCHANGED <<handles, data>>
    /\ UNCHANGED dvars

\* Sink<(Id, Response)>::poll_ready
ResPollReady(h) ==
    /\ UNCHANGED <<rvars, cvars>>
    /\ h \in handles
    /\ \E r \in {"Ready", "Pending"} :
        /\ PollReady(h, r)
        /\ last' = [NoOp EXCEPT !.op = "poll_ready", !.result = r,
                                !.started = (StartsAttempt(h) /\
                                             (lock_future'[h] \/ guard'[h] # guard[h])),
                                !.held = (guard[h] > 0)]
    /\ UNCHANGED <<handles, data>>
    /\ UNCHANGED dvars

\* guard.take().expect(..): the guard leaves the handle and is dropped at the end
\* of the statement that used it, which releases the lock.
TakeGuardKeepsGuard(h) ==
    /\ UNCHANGED guard
    /\ UNCHANGED is_acquired
TakeGuard(h) ==
    /\ guard' = [guard EXCEPT ![h] = 0]
    /\ Unlock(h)

\* The channels not handed to any registration yet; a Sender is not Clone, so
\* every registration brings one of its own.
FreshSlot(s) == sender[s] = "none" /\ \A t \in Slots : t < s => sender[t] # "none"

\* HashMap::insert(id, sender): the entry is set; a Sender already stored
\* under id is replaced and dropped, which closes its channel.
InsertIfAbsent(m, id, s) ==
    LET old == pending_requests[m][id] IN
    /\ pending_requests' = [pending_requests EXCEPT ![m][id] = IF old = None THEN s ELSE old]
    /\ sender' = [sender EXCEPT ![s] = IF old = None THEN "pending" ELSE "dropped"]
Insert(m, id, s) ==
    LET old == pending_requests[m][id] IN
    /\ pending_requests' = [pending_requests EXCEPT ![m][id] = s]
    /\ sender' = [t \in Slots |-> IF t = s THEN "pending"
                                 ELSE IF t = old THEN "dropped" ELSE sender[t]]

\* Sink<(Id, Sender<Response>)>::start_send with the guard held: the pair
\* is inserted and Ok(()) returned.
RegStartSend(h, id) ==
    /\ UNCHANGED <<rvars, cvars>>
    /\ h \in handles
    /\ guard[h] > 0
    /\ \E s \in Slots :
        /\ FreshSlot(s)
        /\ TakeGuard(h)
        /\ Insert(data[h], id, s)
        /\ last' = [NoOp EXCEPT !.op = "register", !.id = id, !.slot = s, !.result = "Ok"]
    /\ UNCHANGED <<handles, data, lock_future, received, receiver_alive, deliveries>>

\* Either start_send on a handle whose guard is None: guard.take() yields
\* None and the expect panics, before the item is looked at.
StartSendWithoutGuard(h) ==
    /\ UNCHANGED <<rvars, cvars>>
    /\ h \in handles
    /\ guard[h] = 0
    /\ last' = [NoOp EXCEPT !.op = "start_send", !.result = "panic"]
    /\ UNCHANGED mvars
    /\ UNCHANGED dvars

\* HashMap::remove(&id): the Sender stored under id, or None; the entry is gone.
RemoveKeep(m, id) == UNCHANGED pending_requests
Remove(m, id) == pending_requests' = [pending_requests EXCEPT ![m][id] = None]

\* Sender::send(response), its result ignored: the response is deposited for the
\* Receiver unless the Receiver was dropped; the Sender is consumed.
SendDropped(s, resp) ==
    /\ sender' = [sender EXCEPT ![s] = "dropped"]
    /\ UNCHANGED <<received, deliveries>>
Send(s, resp) ==
    /\ sender' = [sender EXCEPT ![s] = "sent"]
    /\ received' = [received EXCEPT ![s] = IF receiver_alive[s] THEN resp ELSE @]
    /\ deliveries' = [deliveries EXCEPT ![s] = @ + 1]

\* What start_send does with a resolution whose id has no entry: nothing.
UnknownIdPanics(h, id, resp) ==
    /\ last' = [NoOp EXCEPT !.op = "resolve", !.id = id, !.resp = resp, !.result = "panic"]
    /\ UNCHANGED <<sender, received, deliveries>>
UnknownId(h, id, resp) ==
    /\ last' = [NoOp EXCEPT !.op = "resolve", !.id = id, !.resp = resp, !.result = "Ok"]
    /\ UNCHANGED <<sender, received, deliveries>>

\* What start_send returns after sender.send(response): the let-underscore
\* binding ignores the error that send reports when the Receiver was dropped.
SendResultUnwrapped(s) == IF receiver_alive[s] THEN "Ok" ELSE "panic"
SendResult(s) == "Ok"

\* Sink<(Id, Response)>::start_send with the guard held: the entry of id is
\* removed and, if there was one, the response is sent on it; Ok(()) either way.
ResStartSend(h, id, resp) ==
    /\ UNCHANGED <<rvars, cvars>>
    /\ h \in handles
    /\ guard[h] > 0
    /\ TakeGuard(h)
    /\ Remove(data[h], id)
    /\ LET maybe_sender == pending_requests[data[h]][id] IN
       IF maybe_sender # None
       THEN /\ Send(maybe_sender, resp)
            /\ last' = [NoOp EXCEPT !.op = "resolve", !.id = id, !.resp = resp,
                                    !.slot = maybe_sender, !.result = SendResult(maybe_sender)]
       ELSE UnknownId(h, id, resp)
    /\ UNCHANGED <<handles, data, lock_future, receiver_alive>>

\* The caller of a pending registration drops its Receiver (abandons the
\* call).  A Receiver dropped once its Sender was used or dropped is the
\* ordinary end of a call: nothing of the Dispatcher refers to the channel
\* any more.
Abandon(s) ==
    /\ UNCHANGED <<rvars, cvars>>
    /\ sender[s] = "pending"
    /\ receiver_alive[s]
    /\ receiver_alive' = [receiver_alive EXCEPT ![s] = FALSE]
    /\ last' = [NoOp EXCEPT !.op = "abandon", !.result = "Ok"]
    /\ UNCHANGED mvars
    /\ UNCHANGED <<pending_requests, sender, received, deliveries>>

NextDispatcher ==
    \/ \E h \in Handles : DispatcherClone(h) \/ RegPollReady(h) \/ ResPollReady(h)
    \/ \E h \in Handles : StartSendWithoutGuard(h)
    \/ \E h \in Handles, id \in Ids : RegStartSend(h, id)
    \/ \E h \in Handles, id \in Ids, resp \in Responses : ResStartSend(h, id, resp)
    \/ \E s \in Slots : Abandon(s)

SpecDispatcher == Init /\ [][NextDispatcher]_vars

(***************************************************************************)
(* Properties of the Dispatcher                                            *)
(***************************************************************************)

\* The table of the Dispatcher and its clones (they share one mutex).
Table == pending_requests[data[1]]

\* The step is a registration start_send / a resolution start_send (every
\* operation records itself in last).
Registers == last'.op = "register"
Resolves == last'.op = "resolve"

\* The handle that makes a start_send step: the one whose guard the step takes.
Acting(h) == guard[h] > 0 /\ guard'[h] = 0

\* C1: whatever the interleaving of registrations and resolutions over the
\* cloned handles, a registered completion slot is sent at most one response,
\* and a slot that was sent its response is no longer stored under any
\* identifier, nor is one slot stored under two identifiers: an identifier gets
\* at most one response per registration.
C1_AtMostOneResponse ==
    /\ \A s \in Slots : deliveries[s] <= 1
    /\ \A m \in Handles, id \in Ids :
          pending_requests[m][id] # None =>
             /\ sender[pending_requests[m][id]] = "pending"
             /\ deliveries[pending_requests[m][id]] = 0
             /\ \A j \in Ids : pending_requests[m][j] = pending_requests[m][id] => j = id

\* A response was delivered, a later resolution found no entry to deliver to,
\* and more than one handle is in use.
C1_Witness ==
    /\ \E s \in Slots : deliveries[s] = 1 /\ received[s] # None
    /\ last.op = "resolve" /\ last.result = "Ok" /\ last.slot = None
    /\ Cardinality(handles) > 1

\* C2 as stated: a registration under an identifier that is already pending
\* reports an error and leaves the existing entry as it was.
C2_DuplicateIdentifierFails ==
    [][(Registers /\ Table[last'.id] # None) =>
          /\ last'.result = "Err"
          /\ pending_requests' = pending_requests
          /\ sender'[Table[last'.id]] = "pending"]_vars

\* C2 amended: a registration under an identifier that is already pending
\* returns Ok, stores the new completion slot under the identifier in place of
\* the old one, drops the old slot without sending it a response, and leaves
\* the other entries as they were.
C2_DuplicateRegistrationReplaces ==
    [][(Registers /\ Table[last'.id] # None) =>
          LET id == last'.id
              old == Table[last'.id]
              new == last'.slot
          IN /\ last'.result = "Ok"
             /\ new \notin {None, old} /\ sender[new] = "none"
             /\ pending_requests'[data[1]][id] = new
             /\ sender'[new] = "pending"
             /\ sender'[old] = "dropped"
             /\ deliveries' = deliveries /\ received' = received
             /\ \A j \in Ids \ {id} : pending_requests'[data[1]][j] = Table[j]]_vars

\* A registration has replaced a pending entry: the replaced slot is dropped.
C2_Witness ==
    /\ last.op = "register" /\ last.result = "Ok"
    /\ \E s \in Slots : sender[s] = "dropped" /\ deliveries[s] = 0
    /\ Table[last.id] = last.slot

\* C3: a resolution whose identifier is not in the table returns Ok without a
\* panic, no completion slot is sent anything, and the table is unchanged.
C3_UnknownIdDiscarded ==
    [][(Resolves /\ Table[last'.id] = None) =>
          /\ last'.result = "Ok" /\ last'.slot = None
          /\ pending_requests' = pending_requests
          /\ sender' = sender /\ received' = received /\ deliveries' = deliveries]_vars

\* A resolution found no entry while another identifier was pending.
C3_Witness ==
    /\ last.op = "resolve" /\ last.result = "Ok" /\ last.slot = None
    /\ \E id \in Ids \ {last.id} : Table[id] # None

\* C4: a resolution whose identifier is pending is made by the one handle that
\* holds the lock; in that step the entry is removed, the response is sent on
\* the Sender that was stored under the identifier and on no other (and is there
\* for its Receiver, unless that was dropped), and every other entry stays.
C4_PendingIdResolved ==
    [][(Resolves /\ Table[last'.id] # None) =>
          LET id == last'.id
              s == Table[last'.id]
          IN /\ \E h \in handles :
                   /\ Acting(h) /\ is_acquired[data[h]]
                   /\ \A g \in Handles \ {h} : guard[g] = 0
             /\ last'.result = "Ok" /\ last'.slot = s
             /\ pending_requests'[data[1]][id] = None
             /\ \A j \in Ids \ {id} : pending_requests'[data[1]][j] = Table[j]
             /\ sender'[s] = "sent" /\ deliveries'[s] = deliveries[s] + 1
             /\ received'[s] = IF receiver_alive[s] THEN last'.resp ELSE None
             /\ \A t \in Slots \ {s} :
                   /\ sender'[t] = sender[t]
                   /\ received'[t] = received[t]
                   /\ deliveries'[t] = deliveries[t]]_vars

\* A resolution delivered its response while another entry stayed pending.
C4_Witness ==
    /\ last.op = "resolve" /\ last.slot # None
    /\ received[last.slot] = last.resp /\ sender[last.slot] = "sent"
    /\ Table[last.id] = None
    /\ \E id \in Ids : Table[id] \notin {None, last.slot}

\* C5: registrations and resolutions made through different handles are
\* serialized by the lock.  While a handle holds the guard (from its poll_ready
\* to its start_send) no step of another handle changes the table or the
\* slots' senders, so a resolution sees the table as it was when it took the
\* lock; every change of the table is made by a handle that holds the guard;
\* and a response is only ever sent to a slot that a completed registration had
\* stored in the table under the resolution's identifier.
C5_Linearized ==
    [][/\ \A h \in Handles :
             (guard[h] > 0 /\ guard'[h] > 0) =>
                 pending_requests' = pending_requests /\ sender' = sender
       /\ pending_requests' # pending_requests =>
             \E h \in handles : Acting(h) /\ is_acquired[data[h]]
       /\ \A s \in Slots :
             deliveries'[s] # deliveries[s] =>
                 /\ Resolves
                 /\ sender[s] = "pending"
                 /\ Table[last'.id] = s]_vars

\* One handle holds the guard, another one's poll_ready was refused, and a
\* response has been delivered to a registered slot.
C5_Witness ==
    /\ \E h \in handles : guard[h] > 0 /\ \E g \in handles \ {h} : lock_future[g]
    /\ last.op = "poll_ready" /\ last.result = "Pending"
    /\ \E s \in Slots : deliveries[s] = 1
    /\ \E id \in Ids : Table[id] # None

\* The completion slot stored under id was abandoned by its caller.
AbandonedEntry(id) == Table[id] # None /\ ~receiver_alive[Table[id]]

\* What C21 says of the abandonment itself and of a later resolution: dropping
\* the Receiver changes neither the table nor the stored Senders; a resolution
\* for the identifier of an abandoned entry returns Ok, removes the entry,
\* delivers its response to nobody and leaves every other entry as it was.
AbandonThenResolve ==
    /\ last'.op = "abandon" => pending_requests' = pending_requests /\ sender' = sender
    /\ (Resolves /\ AbandonedEntry(last'.id)) =>
          LET id == last'.id IN
          /\ last'.result = "Ok" /\ last'.slot = Table[id]
          /\ pending_requests'[data[1]][id] = None
          /\ received'[Table[id]] = None
          /\ \A j \in Ids \ {id} : pending_requests'[data[1]][j] = Table[j]

\* C21 as stated: abandoning a pending registration does not change the table,
\* a later resolution for its identifier removes the entry and discards the
\* response without error or panic, touching no other entry, and in every step
\* that is not a resolution of its identifier an abandoned entry stays in the
\* table.
C21_AbandonedEntryStaysUntilResolved ==
    [][/\ AbandonThenResolve
       /\ pending_requests' # pending_requests =>
             \A id \in Ids :
                 (AbandonedEntry(id) /\ ~(Resolves /\ last'.id = id)) =>
                     pending_requests'[data[1]][id] = Table[id]]_vars

\* C21 amended: abandoning a pending registration does not change the table, a
\* later resolution for its identifier removes the entry and discards the
\* response without error or panic, touching no other entry, and an abandoned
\* entry stays in the table in every step that is neither a resolution of its
\* identifier nor a registration under its identifier, which puts the new
\* completion slot in its place.
C21_AbandonedEntryStaysUntilResolvedOrReplaced ==
    [][/\ AbandonThenResolve
       /\ pending_requests' # pending_requests =>
             \A id \in Ids :
                 (AbandonedEntry(id) /\ ~(Resolves /\ last'.id = id)) =>
                     \/ pending_requests'[data[1]][id] = Table[id]
                     \/ /\ Registers /\ last'.id = id
                        /\ pending_requests'[data[1]][id] = last'.slot]_vars

\* A resolution has just removed an abandoned entry: its slot was sent the
\* response, nobody received it, and the entry of another identifier is still
\* in the table.
C21_Witness ==
    /\ last.op = "resolve" /\ last.result = "Ok" /\ last.slot # None
    /\ ~receiver_alive[last.slot] /\ sender[last.slot] = "sent"
    /\ received[last.slot] = None
    /\ Table[last.id] = None
    /\ \E j \in Ids \ {last.id} : Table[j] # None

\* The step is a start_send that got past its guard.take().
StartSends == Registers \/ Resolves

\* The handles that hold the guard.
Holders == {h \in handles : guard[h] > 0}

\* C23: across all clones of one Dispatcher at most one handle holds the table
\* guard (none does at first, and no step makes a second holder); a handle
\* gets the guard only in a poll_ready that returns Ready and gives it up only
\* in its next start_send, which always gives it up; while a handle holds the
\* guard every poll_ready of another handle returns Pending and gets no guard;
\* and the table is only modified in a start_send of the handle that holds
\* the guard.
C23_GuardFromReadyToStartSend ==
    [][/\ guard' # guard =>
             /\ Cardinality(Holders) <= 1
             /\ Cardinality({h \in handles' : guard'[h] > 0}) <= 1
             /\ IF last'.op = "poll_ready"
                THEN /\ last'.result = "Ready" /\ ~last'.held
                     /\ \A h \in Handles : guard'[h] >= guard[h]
                ELSE /\ StartSends
                     /\ \A h \in Handles : guard'[h] <= guard[h]
       /\ (last'.op = "poll_ready" /\ ~last'.held /\ Holders # {}) =>
             last'.result = "Pending" /\ guard' = guard
       /\ StartSends => \E h \in handles : Acting(h)
       /\ pending_requests' # pending_requests =>
             StartSends /\ \E h \in handles : Acting(h)]_vars

\* While one handle holds the guard, the poll_ready of a clone has just been
\* refused, and the table has an entry that the holder can modify.
C23_Witness ==
    /\ Cardinality(handles) > 1
    /\ \E h \in handles :
          /\ guard[h] > 0
          /\ \A g \in handles \ {h} : guard[g] = 0
    /\ last.op = "poll_ready" /\ last.result = "Pending" /\ ~last.held
    /\ \E id \in Ids : Table[id] # None

\* C24: a poll_ready on a handle that already holds the guard returns Ready
\* and starts no acquisition attempt on the mutex, so the handle that holds
\* the guard never has an attempt in flight for the lock, and the lock stays
\* acquired by it.
C24_PollReadyIdempotent ==
    /\ (last.op = "poll_ready" /\ last.held) =>
          /\ last.result = "Ready" /\ ~last.started
          /\ \E h \in handles : guard[h] > 0
    /\ \A h \in handles :
          guard[h] > 0 => ~lock_future[h] /\ is_acquired[data[h]]

\* poll_ready has just been called on the handle that holds the guard, while a
\* clone is waiting for the lock.
C24_Witness ==
    /\ last.op = "poll_ready" /\ last.held /\ last.result = "Ready"
    /\ \E h \in handles :
          /\ guard[h] > 0 /\ is_acquired[data[h]]
          /\ \E g \in handles \ {h} : lock_future[g]

(***************************************************************************)
(* Properties of the MutexStateMachine                                     *)
(***************************************************************************)

\* C6: over a MutexStateMachine and all its clones, whatever the interleaving
\* of poll_lock calls and guard drops, at most one guard is live: no handle
\* holds two, and no two handles hold one each.
C6_OneLiveGuard ==
    /\ \A h \in Handles : guard[h] <= 1
    /\ \A h, g \in handles : (guard[h] > 0 /\ guard[g] > 0) => h = g
    /\ \A h \in handles : data[h] = data[1]

\* A handle holds the guard and polls for a second one while a clone is
\* waiting for the lock too.
C6_Witness ==
    /\ \E h \in handles :
          /\ guard[h] = 1 /\ lock_future[h]
          /\ \E g \in handles \ {h} : lock_future[g]
    /\ last.op = "poll_lock" /\ last.result = "Pending"

\* C8: poll_lock starts an acquisition attempt exactly when none is stored;
\* when it returns Ready the stored attempt has been cleared and one guard is
\* handed out; when it returns Pending the attempt stays stored and no guard is
\* handed out.  The other handles' attempts are not touched.
C8_OneAttemptInFlight ==
    [][\A h \in Handles :
          MutexPollLock(h) =>
             /\ last'.started = ~lock_future[h]
             /\ last'.result = "Ready" =>
                   ~lock_future'[h] /\ guard'[h] = guard[h] + 1 /\ ~is_acquired[data[h]]
             /\ last'.result = "Pending" => lock_future'[h] /\ guard'[h] = guard[h]
             /\ \A g \in Handles \ {h} :
                   lock_future'[g] = lock_future[g] /\ guard'[g] = guard[g]]_vars

\* A poll that reused the stored attempt returned Ready: the attempt is cleared
\* and the guard held.
C8_Witness ==
    /\ last.op = "poll_lock" /\ last.result = "Ready" /\ ~last.started
    /\ \E h \in handles : guard[h] = 1 /\ ~lock_future[h]

\* C9: a clone points at the same mutex as the original, has no acquisition
\* attempt in flight and no guard, and cloning changes neither the original's
\* stored attempt nor any other handle's, nor the lock.
C9_CloneIsIdle ==
    [][\A h \in Handles :
          MutexClone(h) =>
             LET new == Cardinality(handles) + 1 IN
             /\ handles' = handles \cup {new}
             /\ data'[new] = data[h]
             /\ ~lock_future'[new] /\ guard'[new] = 0
             /\ \A g \in handles :
                   /\ lock_future'[g] = lock_future[g]
                   /\ guard'[g] = guard[g]
                   /\ data'[g] = data[g]
             /\ is_acquired' = is_acquired]_vars

\* A handle was cloned while its acquisition attempt was in flight.
C9_Witness ==
    /\ last.op = "clone"
    /\ Cardinality(handles) = 2
    /\ lock_future[1] /\ ~lock_future[2] /\ data[2] = data[1]

(***************************************************************************)
(* The generated Service: dispatch of requests to the methods              *)
(***************************************************************************)

\* ReceiverType, in the order of its derived Ord.
NoReceiver == 0
Reference == 1
MutableReference == 2
ReceiverTypes == {NoReceiver, Reference, MutableReference}

\* What dispatch needs of a MethodData: its receiver type, and whether it is an
\* async fn.
MethodDatas == [receiver_type : ReceiverTypes, asynchronous : BOOLEAN]

\* The method lists a Service is generated for: Generator::new aborts on an
\* `impl` block without methods.
Interfaces == UNION {[1..n -> MethodDatas] : n \in 1..MaxMethods}

\* Iterator::max over the derived Ord of ReceiverType (the order of the
\* variants' declaration): a fold that keeps the accumulator only when it
\* compares Greater than the next element.
RECURSIVE IterMax(_, _), IterMin(_, _)
IterMin(acc, rest) ==
    IF rest = <<>>
    THEN acc
    ELSE IterMin(IF acc < Head(rest) THEN acc ELSE Head(rest), Tail(rest))
IterMax(acc, rest) ==
    IF rest = <<>>
    THEN acc
    ELSE IterMax(IF acc > Head(rest) THEN acc ELSE Head(rest), Tail(rest))

\* Generator::new: the most strict receiver type of the methods,
\* methods.iter().map(MethodData::receiver_type).max().
ServiceReceiverTypeOfFirst(ms) == ms[1].receiver_type
ServiceReceiverType(ms) ==
    LET receiver_types == [i \in 1..Len(ms) |-> ms[i].receiver_type]
    IN  IterMax(Head(receiver_types), Tail(receiver_types))

\* ReceiverType::service_method_call_prefix: how the Service (of receiver type
\* service) reaches the state for a method (of receiver type method).
ServiceMethodCallPrefixUnlocked(service, method) ==
    CASE method = NoReceiver -> "Self::"
      [] service = Reference /\ method = Reference -> "inner."
      [] service = MutableReference /\ method = Reference -> "inner."
      [] service = MutableReference /\ method = MutableReference -> "inner.write().await."
      [] OTHER -> "unreachable"
ServiceMethodCallPrefixReadOnly(service, method) ==
    CASE method = NoReceiver -> "Self::"
      [] service = Reference /\ method = Reference -> "inner."
      [] service = MutableReference /\ method = Reference -> "inner.read().await."
      [] service = MutableReference /\ method = MutableReference -> "inner.read().await."
      [] OTHER -> "unreachable"
ServiceMethodCallPrefix(service, method) ==
    CASE method = NoReceiver -> "Self::"
      [] service = Reference /\ method = Reference -> "inner."
      [] service = MutableReference /\ method = Reference -> "inner.read().await."
      [] service = MutableReference /\ method = MutableReference -> "inner.write().await."
      [] OTHER -> "unreachable"

\* The prefix of the match arm that call t runs.
Prefix(t) ==
    ServiceMethodCallPrefix(ServiceReceiverType(methods),
                            methods[call[t].method].receiver_type)

\* A Service generated for some interface; none of its futures exists yet.
InitRouter ==
    /\ New
    /\ methods \in Interfaces
    /\ call = [t \in Calls |-> NoCall]
    /\ readers = 0
    /\ writer = FALSE
    /\ NoMacro

\* Service::poll_ready: Poll::Ready(Ok(())), whatever the state of the lock
\* and of the futures that call has returned.
ServicePollReadyWhileUnlocked == IF writer THEN "Pending" ELSE "Ready(Ok)"
ServicePollReady == "Ready(Ok)"

\* Another dispatch holds a guard of the state lock.
LockHeld == writer \/ readers > 0

\* A dispatch as the generated helpers make it: self.ready().await polls
\* poll_ready (and waits while it is Pending), expect panics on an Err, then
\* Service::call(request) boxes the async block of the request's match arm and
\* returns it; nothing of it runs before it is polled.  The call remembers
\* what poll_ready returned, and whether the state lock was held then, until
\* its future is first polled.
ServiceCall(t, i) ==
    /\ call[t].pc \in {"idle", "done"}
    /\ i \in DOMAIN methods
    /\ LET ready == ServicePollReady IN
       IF ready = "Ready(Ok)"
       THEN call' = [call EXCEPT ![t] = [pc |-> "created", method |-> i, mode |-> "none",
                                         ready |-> ready, contended |-> LockHeld]]
       ELSE call' = [call EXCEPT ![t] = [pc |-> IF ready = "Pending" THEN "idle" ELSE "panicked",
                                         method |-> 0, mode |-> "none",
                                         ready |-> ready, contended |-> LockHeld]]
    /\ UNCHANGED <<methods, readers, writer>>
    /\ UNCHANGED <<mvars, dvars, last, cvars>>

\* Outcomes of polling RwLock::read() / RwLock::write().  The lock is tokio's;
\* its contract: a read guard is not granted while a write guard is live, a
\* write guard is not granted while any guard is live.  Which of the compatible
\* waiters a free lock goes to first is the lock's queueing, so a poll that
\* could be granted may also be deferred.
RwLockPoll(mode) ==
    IF mode = "read"
    THEN IF writer THEN {"Pending"} ELSE {"Ready", "Pending"}
    ELSE IF writer \/ readers > 0 THEN {"Pending"} ELSE {"Ready", "Pending"}

\* The future of call t is polled up to the method call: match arms with a
\* lock prefix await the guard first, the others reach the method at once.
CallPoll(t) ==
    /\ call[t].pc \in {"created", "waiting"}
    /\ LET prefix == Prefix(t) IN
       \/ /\ prefix \in {"Self::", "inner."}
          /\ call' = [call EXCEPT ![t].pc = "running",
                                   ![t].ready = "none", ![t].contended = FALSE]
          /\ UNCHANGED <<readers, writer>>
       \/ /\ prefix = "inner.read().await."
          /\ \E r \in RwLockPoll("read") :
                IF r = "Ready"
                THEN /\ call' = [call EXCEPT ![t].pc = "running", ![t].mode = "read",
                                              ![t].ready = "none", ![t].contended = FALSE]
                     /\ readers' = readers + 1
                ELSE /\ call' = [call EXCEPT ![t].pc = "waiting",
                                              ![t].ready = "none", ![t].contended = FALSE]
                     /\ UNCHANGED readers
          /\ UNCHANGED writer
       \/ /\ prefix = "inner.write().await."
          /\ \E r \in RwLockPoll("write") :
                IF r = "Ready"
                THEN /\ call' = [call EXCEPT ![t].pc = "running", ![t].mode = "write",
                                              ![t].ready = "none", ![t].contended = FALSE]
                     /\ writer' = TRUE
                ELSE /\ call' = [call EXCEPT ![t].pc = "waiting",
                                              ![t].ready = "none", ![t].contended = FALSE]
                     /\ UNCHANGED writer
          /\ UNCHANGED readers
    /\ UNCHANGED methods
    /\ UNCHANGED <<mvars, dvars, last, cvars>>

\* MethodData::method_call_await: the call of an async fn is awaited, so the
\* future of call t can be suspended inside the method; the guard of the prefix
\* is a temporary of the same expression and stays alive meanwhile.
MethodSuspendReleasesGuard(t) ==
    /\ call[t].pc = "running"
    /\ methods[call[t].method].asynchronous
    /\ call' = [call EXCEPT ![t].pc = "suspended", ![t].mode = "none"]
    /\ readers' = IF call[t].mode = "read" THEN readers - 1 ELSE readers
    /\ writer' = IF call[t].mode = "write" THEN FALSE ELSE writer
    /\ UNCHANGED methods
    /\ UNCHANGED <<mvars, dvars, last, cvars>>
MethodSuspend(t) ==
    /\ call[t].pc = "running"
    /\ methods[call[t].method].asynchronous
    /\ call' = [call EXCEPT ![t].pc = "suspended"]
    /\ UNCHANGED <<methods, readers, writer>>
    /\ UNCHANGED <<mvars, dvars, last, cvars>>

MethodResume(t) ==
    /\ call[t].pc = "suspended"
    /\ call' = [call EXCEPT ![t].pc = "running"]
    /\ UNCHANGED <<methods, readers, writer>>
    /\ UNCHANGED <<mvars, dvars, last, cvars>>

\* The method returns: the match arm's value is the future's output and the
\* guard of the prefix, if any, is dropped.
MethodReturn(t) ==
    /\ call[t].pc = "running"
    /\ call' = [call EXCEPT ![t].pc = "done", ![t].mode = "none"]
    /\ readers' = IF call[t].mode = "read" THEN readers - 1 ELSE readers
    /\ writer' = IF call[t].mode = "write" THEN FALSE ELSE writer
    /\ UNCHANGED methods
    /\ UNCHANGED <<mvars, dvars, last, cvars>>

NextRouter ==
    \/ \E t \in Calls, i \in 1..MaxMethods : ServiceCall(t, i)
    \/ \E t \in Calls : CallPoll(t) \/ MethodSuspend(t) \/ MethodResume(t) \/ MethodReturn(t)

SpecRouter == InitRouter /\ [][NextRouter]_vars

(***************************************************************************)
(* The macro: ResultData, ResponseData, Generator                          *)
(***************************************************************************)

\* The unit type `()`, and the generated `Response` enum as a type.
UnitType == 0
ResponseType == MaxTypes + 1
Types == UnitType..MaxTypes

\* An Option: a sequence of at most one element.
Some(x) == <<x>>

\* ResultData: NotResult(type) or Result { ok_type, err_type }.
NotResult(type) == [tag |-> "NotResult", ok_type |-> type, err_type |-> <<>>]
Result(ok, err) == [tag |-> "Result", ok_type |-> ok, err_type |-> Some(err)]
ResultDatas ==
    {NotResult(t) : t \in Types} \cup {Result(ok, err) : ok \in Types, err \in Types}

\* method_results.filter_map(ResultData::err_type)
RECURSIVE FilterMapErrType(_)
FilterMapErrType(results) ==
    IF results = <<>>
    THEN <<>>
    ELSE Head(results).err_type \o FilterMapErrType(Tail(results))

\* ResponseData::common_shared_error: () when there is no error type, the
\* first error type when all the others are equal to it, None otherwise.
CommonSharedErrorOfFirst(error_types) ==
    IF error_types = <<>> THEN Some(UnitType) ELSE Some(Head(error_types))
CommonSharedError(error_types) ==
    IF error_types = <<>>
    THEN Some(UnitType)
    ELSE IF \A i \in 2..Len(error_types) : error_types[i] = Head(error_types)
         THEN Some(Head(error_types))
         ELSE <<>>

\* The closure of common_shared_result's try_fold.
SharedResultStepKeepsCurrent(current, next) ==
    IF current = next THEN Some(current)
    ELSE IF current.ok_type # next.ok_type THEN <<>>
    ELSE IF current.err_type = <<>> THEN Some(current)
    ELSE IF next.err_type = <<>> THEN Some(current)
    ELSE <<>>
SharedResultStepTakesNext(current, next) ==
    IF current = next THEN Some(current)
    ELSE IF current.ok_type # next.ok_type THEN <<>>
    ELSE IF current.err_type = <<>> THEN Some(next)
    ELSE IF next.err_type = <<>> THEN Some(next)
    ELSE <<>>
SharedResultStep(current, next) ==
    IF current = next THEN Some(current)
    ELSE IF current.ok_type # next.ok_type THEN <<>>
    ELSE IF current.err_type = <<>> THEN Some(next)
    ELSE IF next.err_type = <<>> THEN Some(current)
    ELSE <<>>

\* try_fold: stops at the first None.
RECURSIVE TryFold(_, _)
TryFold(current, rest) ==
    IF rest = <<>>
    THEN Some(current)
    ELSE LET step == SharedResultStep(current, Head(rest))
         IN  IF step = <<>> THEN <<>> ELSE TryFold(step[1], Tail(rest))

\* ResponseData::common_shared_result, of a non-empty list.
CommonSharedResult(results) == TryFold(Head(results), Tail(results))

\* The three shapes of ResponseData.
Shared(result) ==
    [shape |-> "Shared", result |-> Some(result), outputs |-> <<>>, error |-> <<>>]
DisjointWithSharedError(outputs, error) ==
    [shape |-> "DisjointWithSharedError", result |-> <<>>, outputs |-> outputs,
     error |-> Some(error)]
FullyDisjoint(results) ==
    [shape |-> "FullyDisjoint", result |-> <<>>, outputs |-> results, error |-> <<>>]

\* ResponseData::new, of the MethodData of a non-empty method list.
ResponseDataNewSingleShape(ms) ==
    LET result == CommonSharedResult([i \in 1..Len(ms) |-> ms[i].result])
    IN  IF result # <<>>
        THEN Shared(result[1])
        ELSE [shape |-> "Incompatible method return type", result |-> <<>>,
              outputs |-> <<>>, error |-> <<>>]
ResponseDataNew(ms) ==
    LET method_results == [i \in 1..Len(ms) |-> ms[i].result]
        error == CommonSharedError(FilterMapErrType(method_results))
        result == CommonSharedResult(method_results)
    IN  IF error # <<>>
        THEN IF result # <<>>
             THEN Shared(result[1])
             ELSE DisjointWithSharedError(
                      [i \in 1..Len(ms) |->
                          [name |-> ms[i].request_name, type |-> Some(ms[i].result.ok_type),
                           result |-> <<>>]],
                      error[1])
        ELSE FullyDisjoint(
                 [i \in 1..Len(ms) |->
                     [name |-> ms[i].request_name, type |-> <<>>,
                      result |-> Some(ms[i].result)]])

\* ResponseData::ok_type and ResponseData::err_type: the associated types
\* Response and Error of the generated tower::Service.
OkType(response) ==
    IF response.shape = "Shared" THEN response.result[1].ok_type ELSE ResponseType

ErrType(response) ==
    CASE response.shape = "Shared" ->
            IF response.result[1].err_type = <<>>
            THEN UnitType
            ELSE response.result[1].err_type[1]
      [] response.shape = "DisjointWithSharedError" -> response.error[1]
      [] response.shape = "FullyDisjoint" -> UnitType

\* Identifiers are sequences of characters.  heck's to_camel_case: words are
\* separated by underscores and by a change from lower to upper case (and
\* before the last of a run of upper case letters that a lower case letter
\* follows); every word is capitalized and the words are joined.
IsLower(c) == c \in {"a", "b"}
IsUpper(c) == c \in {"A", "B"}
ToUpper(c) == CASE c = "a" -> "A" [] c = "b" -> "B" [] OTHER -> c
ToLower(c) == CASE c = "A" -> "a" [] c = "B" -> "b" [] OTHER -> c

WordStart(name, i) ==
    \/ i = 1
    \/ name[i - 1] = "_"
    \/ IsLower(name[i - 1]) /\ IsUpper(name[i])
    \/ /\ IsUpper(name[i - 1]) /\ IsUpper(name[i])
       /\ i < Len(name) /\ IsLower(name[i + 1])

RECURSIVE CamelCaseFrom(_, _)
CamelCaseFrom(name, i) ==
    IF i > Len(name) THEN <<>>
    ELSE IF name[i] = "_" THEN CamelCaseFrom(name, i + 1)
    ELSE <<IF WordStart(name, i) THEN ToUpper(name[i]) ELSE ToLower(name[i])>>
            \o CamelCaseFrom(name, i + 1)

ToCamelCase(name) == CamelCaseFrom(name, 1)

\* The method names of the `impl` blocks that are tried: a_b and aB are
\* different Rust identifiers with the same CamelCase form.
MethodNames == {<<"a">>, <<"a", "b">>, <<"a", "_", "b">>, <<"a", "B">>}

\* The name of the i-th method where the names do not matter: a, aa, aaa, ...
DefaultName(i) == [k \in 1..i |-> "a"]

\* What the macro reads of a method of the `impl` block (ImplItemMethod).
ImplItemMethod(name, receiver_type, result) ==
    [name |-> name, receiver_type |-> receiver_type, result |-> result]

\* The `impl` blocks the macro is applied to: blocks of up to MaxMethods
\* methods (none included) with every combination of return types, and blocks
\* with every combination of distinct names.
ItemImpls ==
    UNION {
        {[i \in 1..n |-> ImplItemMethod(DefaultName(i), NoReceiver, results[i])] :
            results \in [1..n -> ResultDatas]}
        \cup
        {[i \in 1..n |-> ImplItemMethod(names[i], NoReceiver, NotResult(UnitType))] :
            names \in {ns \in [1..n -> MethodNames] :
                          \A i, j \in 1..n : ns[i] = ns[j] => i = j}}
        : n \in 0..MaxMethods}

\* MethodData::new: the request name is the CamelCase form of the method name.
MethodDataNew(method) ==
    [name |-> method.name,
     request_name |-> ToCamelCase(method.name),
     receiver_type |-> method.receiver_type,
     result |-> method.result]

\* A Generator, or the abort of the macro with an error message (the messages
\* are written without their backquotes).
Abort(message) ==
    [status |-> "aborted", error |-> message, methods |-> <<>>, request |-> <<>>,
     response |-> <<>>, receiver_type |-> <<>>]

\* Generator::new, and Generator::request: one variant per method.
GeneratorNewChecksLate(item_impl) ==
    LET ms == [i \in 1..Len(item_impl) |-> MethodDataNew(item_impl[i])] IN
    IF ms = <<>>
    THEN Abort("Empty list of ResultData used to determine shared result")
    ELSE [status |-> "generated", error |-> "", methods |-> ms,
          request |-> [i \in 1..Len(ms) |-> ms[i].request_name],
          response |-> Some(ResponseDataNew(ms)),
          receiver_type |-> Some(ServiceReceiverType(ms))]
GeneratorNew(item_impl) ==
    LET ms == [i \in 1..Len(item_impl) |-> MethodDataNew(item_impl[i])] IN
    IF ms = <<>>
    THEN Abort("impl item has no methods")
    ELSE [status |-> "generated", error |-> "", methods |-> ms,
          request |-> [i \in 1..Len(ms) |-> ms[i].request_name],
          response |-> Some(ResponseDataNew(ms)),
          receiver_type |-> Some(ServiceReceiverType(ms))]

\* The wrappers of a value.
OkW == [kind |-> "Ok", name |-> <<>>]
ErrW == [kind |-> "Err", name |-> <<>>]
VariantW(name) == [kind |-> "Variant", name |-> name]

Value(type) == [wrap |-> <<>>, type |-> type]
Wrap(w, v) == [v EXCEPT !.wrap = <<w>> \o @]
Unwrap(v) == [v EXCEPT !.wrap = Tail(@)]
IsOk(v) == v.wrap # <<>> /\ Head(v.wrap).kind = "Ok"
IsErr(v) == v.wrap # <<>> /\ Head(v.wrap).kind = "Err"

\* What a method with return type result_data can return.
NativeOutcomes(result_data) ==
    IF result_data.tag = "NotResult"
    THEN {Value(result_data.ok_type)}
    ELSE {Wrap(OkW, Value(result_data.ok_type)),
          Wrap(ErrW, Value(result_data.err_type[1]))}

\* ResultData::conversion_to_result: Ok(expression) for a NotResult, the
\* expression itself for a Result.
ConversionToResultSwapped(result_data, expression) ==
    IF result_data.tag = "NotResult" THEN expression ELSE Wrap(OkW, expression)
ConversionToResult(result_data, expression) ==
    IF result_data.tag = "NotResult" THEN Wrap(OkW, expression) ELSE expression

\* Result::map(Response::<variant>)
MapVariant(result, variant) ==
    IF IsOk(result) THEN Wrap(OkW, Wrap(VariantW(variant), Unwrap(result))) ELSE result

\* ResponseData::conversion_to_response
ConversionToResponseUntagged(response, method, expression) ==
    CASE response.shape = "Shared" -> ConversionToResult(method.result, expression)
      [] response.shape = "DisjointWithSharedError" ->
            ConversionToResult(method.result, expression)
      [] response.shape = "FullyDisjoint" -> Wrap(OkW, expression)
ConversionToResponse(response, method, expression) ==
    CASE response.shape = "Shared" -> ConversionToResult(method.result, expression)
      [] response.shape = "DisjointWithSharedError" ->
            MapVariant(ConversionToResult(method.result, expression), method.request_name)
      [] response.shape = "FullyDisjoint" ->
            Wrap(OkW, Wrap(VariantW(method.request_name), expression))

\* The outcome of an expression that may panic.
Returned(v) == [value |-> v, panic |-> ""]
Panicked(message) == [value |-> NoValue, panic |-> message]

\* ResultData::conversion_from_result: .expect("Result data never fails") for
\* a NotResult, nothing for a Result.
ConversionFromResult(result_data, result) ==
    IF result_data.tag = "NotResult"
    THEN IF IsOk(result) THEN Returned(Unwrap(result))
         ELSE Panicked("Result data never fails")
    ELSE Returned(result)

\* Taking the payload out of the method's variant of the Response enum.
UnwrapVariant(v, variant) ==
    IF v.wrap # <<>> /\ Head(v.wrap) = VariantW(variant)
    THEN Returned(Unwrap(v))
    ELSE Panicked("unexpected Response variant")

\* The body of a helper generated by MethodData::service_method, after
\* service.call(request).await: the output of the future is turned back into the
\* method's own return type.  With the Shared shape this is
\* conversion_from_result; with the other shapes the method's variant of the
\* Response enum is unwrapped as well.
ServiceMethodReturn(response, method, result) ==
    CASE response.shape = "Shared" -> ConversionFromResult(method.result, result)
      [] response.shape = "DisjointWithSharedError" ->
            IF IsOk(result)
            THEN LET payload == UnwrapVariant(Unwrap(result), method.request_name)
                 IN  IF payload.panic # "" THEN payload
                     ELSE ConversionFromResult(method.result, Wrap(OkW, payload.value))
            ELSE ConversionFromResult(method.result, result)
      [] response.shape = "FullyDisjoint" ->
            IF IsOk(result)
            THEN UnwrapVariant(Unwrap(result), method.request_name)
            ELSE Panicked("unexpected Err")

\* rustc accepts the generated code: the variants of `enum Request` have
\* different names.
Compiles(g) ==
    /\ g.status = "generated"
    /\ \A i, j \in 1..Len(g.request) : g.request[i] = g.request[j] => i = j

\* The `impl` block the macro is applied to.
InitCompile ==
    /\ New
    /\ NoService
    /\ item \in ItemImpls
    /\ generator = NoGenerator
    /\ exchange = [t \in Calls |-> NoExchange]

\* The macro is expanded: Generator::new and the generation of its output.
Tower ==
    /\ generator.status = "none"
    /\ generator' = GeneratorNew(item)
    /\ UNCHANGED <<item, exchange>>
    /\ UNCHANGED <<mvars, dvars, rvars, last>>

\* A helper Service::<method> is called, for the t-th time: it builds the
\* request of method i and awaits the future that Service::call returns for it.
\* The helpers are async fns that take &mut self, so the future of one borrows
\* the Service until it has completed: the next call comes after it.
ServiceMethodCall(t, i) ==
    /\ Compiles(generator)
    /\ exchange[t].pc = "idle"
    /\ \A u \in 1..(t - 1) : exchange[u].pc \in {"returned", "panicked"}
    /\ i \in 1..Len(generator.methods)
    /\ exchange' = [exchange EXCEPT ![t] = [NoExchange EXCEPT !.pc = "called", !.method = i]]
    /\ UNCHANGED <<item, generator>>
    /\ UNCHANGED <<mvars, dvars, rvars, last>>

\* The future completes: the match arm of the request has called the method and
\* converted what it returned into the Service's response; the helper converts
\* that back and returns (or panics).
ServiceMethodComplete(t) ==
    /\ exchange[t].pc = "called"
    /\ LET method == generator.methods[exchange[t].method]
           response == generator.response[1]
       IN  \E native \in NativeOutcomes(method.result) :
              LET result == ConversionToResponse(response, method, native)
                  back == ServiceMethodReturn(response, method, result)
              IN  exchange' = [exchange EXCEPT ![t] =
                      [pc |-> IF back.panic = "" THEN "returned" ELSE "panicked",
                       method |-> exchange[t].method,
                       native |-> native,
                       response |-> result,
                       returned |-> back.value,
                       panic |-> back.panic]]
    /\ UNCHANGED <<item, generator>>
    /\ UNCHANGED <<mvars, dvars, rvars, last>>

NextCompile ==
    \/ Tower
    \/ \E t \in Calls, i \in 1..MaxMethods : ServiceMethodCall(t, i)
    \/ \E t \in Calls : ServiceMethodComplete(t)

SpecCompile == InitCompile /\ [][NextCompile]_vars

(***************************************************************************)
(* Properties of the dispatch                                              *)
(***************************************************************************)

\* Call t is executing its method on the shared service state.
Executing(t) ==
    /\ call[t].pc \in {"running", "suspended"}
    /\ methods[call[t].method].receiver_type # NoReceiver

ExecutingMethod(t, r) == Executing(t) /\ methods[call[t].method].receiver_type = r

\* C10 as stated: in an interface whose receiver type is MutableReference, two
\* calls of methods with a Reference receiver never execute on the shared state
\* at the same time.
C10_SharedReadSerialized ==
    ServiceReceiverType(methods) = MutableReference =>
        \A t, u \in Calls :
            (ExecutingMethod(t, Reference) /\ ExecutingMethod(u, Reference)) => t = u

\* C10 amended: in an interface whose receiver type is MutableReference, a
\* call of a method with a Reference receiver goes through the same lock as the
\* calls of the MutableReference methods, holding a read guard while it
\* executes: it never executes on the shared state at the same time as a call of
\* a MutableReference method (calls of Reference methods may overlap each
\* other).
C10_SharedReadExcludesWrite ==
    ServiceReceiverType(methods) = MutableReference =>
        /\ \A t \in Calls : ExecutingMethod(t, Reference) => call[t].mode = "read"
        /\ \A t, u \in Calls :
              ~(ExecutingMethod(t, Reference) /\ ExecutingMethod(u, MutableReference))

\* A call of a Reference method executes, holding its read guard, while a call
\* of a MutableReference method waits for the lock.
C10_Witness ==
    /\ ServiceReceiverType(methods) = MutableReference
    /\ \E t, u \in Calls :
          /\ ExecutingMethod(t, Reference) /\ call[t].mode = "read"
          /\ call[u].pc = "waiting"
          /\ methods[call[u].method].receiver_type = MutableReference

\* C11: while a call of a MutableReference method executes on the shared
\* state, holding the write guard, no other call (of a Reference or of a
\* MutableReference method) executes on that state.
C11_ExclusiveWriteAlone ==
    \A t, u \in Calls :
        (ExecutingMethod(t, MutableReference) /\ Executing(u)) =>
            (t = u /\ call[t].mode = "write" /\ writer /\ readers = 0)

\* A call of a MutableReference method executes while another call, of a
\* method that needs the shared state, has been polled and waits for the lock.
C11_Witness ==
    \E t, u \in Calls :
        /\ t # u
        /\ ExecutingMethod(t, MutableReference)
        /\ call[u].pc = "waiting"
        /\ methods[call[u].method].receiver_type # NoReceiver

\* Call u, created or waiting, reaches its method when it is polled now.
CanProceed(u) ==
    LET prefix == Prefix(u) IN
       \/ prefix \in {"Self::", "inner."}
       \/ prefix = "inner.read().await." /\ "Ready" \in RwLockPoll("read")
       \/ prefix = "inner.write().await." /\ "Ready" \in RwLockPoll("write")

Pending(u) == call[u].pc \in {"created", "waiting"}

\* The accesses of calls v and u to the shared state exclude each other: the
\* state is behind the RwLock and one of the two methods takes &mut self.
ConflictingAccess(v, u) ==
    /\ ServiceReceiverType(methods) = MutableReference
    /\ methods[call[v].method].receiver_type # NoReceiver
    /\ methods[call[u].method].receiver_type # NoReceiver
    /\ MutableReference \in {methods[call[v].method].receiver_type,
                             methods[call[u].method].receiver_type}

Reorderings(ms) ==
    {[i \in 1..Len(ms) |-> ms[p[i]]] :
        p \in {q \in [1..Len(ms) -> 1..Len(ms)] :
                  \A i, j \in 1..Len(ms) : q[i] = q[j] => i = j}}

\* C13: the receiver type of the Service is the maximum of the methods'
\* receiver types under NoReceiver < Reference < MutableReference: it is the
\* receiver type of one of the methods, none of the methods has a greater one,
\* it is the same for every order of the methods, and it is MutableReference
\* whenever one method takes &mut self.
C13_StrategyIsMaximum ==
    LET service == ServiceReceiverType(methods) IN
    /\ \E i \in DOMAIN methods : methods[i].receiver_type = service
    /\ \A i \in DOMAIN methods : methods[i].receiver_type <= service
    /\ \A ms \in Reorderings(methods) : ServiceReceiverType(ms) = service
    /\ (\E i \in DOMAIN methods : methods[i].receiver_type = MutableReference)
          => service = MutableReference

\* The Service of an interface whose second method is the only one that takes
\* &mut self uses the RwLock: a call of the first method, which takes &self,
\* executes under a read guard.
C13_Witness ==
    /\ Len(methods) >= 2
    /\ methods[1].receiver_type = Reference
    /\ methods[2].receiver_type = MutableReference
    /\ \A i \in DOMAIN methods : i # 2 => methods[i].receiver_type # MutableReference
    /\ \E t \in Calls : call[t].method = 1 /\ call[t].pc = "running" /\ call[t].mode = "read"

\* C22: the generated Service is always ready: whatever the state of the lock
\* and of the dispatches in flight, poll_ready returns Ready(Ok(())), so no
\* dispatch of a helper is ever left waiting for readiness and the expect on
\* its readiness check never panics.
C22_AlwaysReady ==
    /\ ServicePollReady = "Ready(Ok)"
    /\ \A t \in Calls :
          /\ call[t].ready \in {"none", "Ready(Ok)"}
          /\ call[t].pc # "panicked"
          /\ call[t].pc = "created" => call[t].ready = "Ready(Ok)"

\* A dispatch was made, and found the Service ready, while another dispatch
\* held the write guard of the state lock, which it still holds.
C22_Witness ==
    \E t, u \in Calls :
        /\ t # u
        /\ call[t].pc = "created" /\ call[t].ready = "Ready(Ok)" /\ call[t].contended
        /\ call[u].pc \in {"running", "suspended"} /\ call[u].mode = "write"
        /\ writer

\* C26: the receiver type of the Service is at least the receiver type of each
\* of its methods, so no match arm's call prefix is the unreachable one; and a
\* method without receiver is called directly, through Self::, takes no guard
\* of the state lock and is never made to wait for it, also when the Service's
\* receiver type is MutableReference and another call holds the lock.
C26_PrefixNeverUnreachable ==
    LET service == ServiceReceiverType(methods) IN
    /\ \A i \in DOMAIN methods :
          /\ methods[i].receiver_type <= service
          /\ ServiceMethodCallPrefix(service, methods[i].receiver_type) # "unreachable"
          /\ methods[i].receiver_type = NoReceiver =>
                ServiceMethodCallPrefix(service, NoReceiver) = "Self::"
    /\ \A t \in Calls :
          (call[t].pc # "idle" /\ methods[call[t].method].receiver_type = NoReceiver) =>
              /\ call[t].mode = "none"
              /\ call[t].pc # "waiting"
              /\ Pending(t) => CanProceed(t)

\* In a Service whose receiver type is MutableReference, a call of a method
\* without receiver executes while another call holds the write guard.
C26_Witness ==
    /\ ServiceReceiverType(methods) = MutableReference
    /\ \E t, u \in Calls :
          /\ t # u
          /\ call[t].pc = "running" /\ call[t].mode = "none"
          /\ methods[call[t].method].receiver_type = NoReceiver
          /\ call[u].pc \in {"running", "suspended"} /\ call[u].mode = "write"
    /\ writer

(***************************************************************************)
(* Properties of the macro and of the generated helpers                    *)
(***************************************************************************)

\* The failure types the fallible methods of the `impl` block declare, and the
\* success types of all its methods.
DeclaredErrTypes ==
    {item[i].result.err_type[1] : i \in {j \in 1..Len(item) : item[j].result.tag = "Result"}}
DeclaredOkTypes == {item[i].result.ok_type : i \in 1..Len(item)}

Generated == generator.status = "generated"

\* C14: for every non-empty method list the shape of the ResponseData is
\* Shared when the fallible methods declare at most one failure type and all
\* methods have the same success type, DisjointWithSharedError when they declare
\* at most one failure type and the success types differ, FullyDisjoint when two
\* fallible methods declare different failure types.
C14_ShapeRule ==
    Generated =>
        generator.response[1].shape =
            CASE Cardinality(DeclaredErrTypes) >= 2 -> "FullyDisjoint"
              [] Cardinality(DeclaredErrTypes) <= 1 /\ Cardinality(DeclaredOkTypes) = 1 ->
                    "Shared"
              [] Cardinality(DeclaredErrTypes) <= 1 /\ Cardinality(DeclaredOkTypes) >= 2 ->
                    "DisjointWithSharedError"

\* The macro was expanded for two fallible methods with the same success type
\* and different failure types: the shape is FullyDisjoint.
C14_Witness ==
    /\ Generated
    /\ Len(item) >= 2
    /\ Cardinality(DeclaredOkTypes) = 1
    /\ item[1].result.tag = "Result" /\ item[2].result.tag = "Result"
    /\ item[1].result.err_type # item[2].result.err_type
    /\ generator.response[1].shape = "FullyDisjoint"

\* C15: when the shape is Shared, the Service's Response type is the success
\* type all the methods have, and its Error type is the failure type that the
\* fallible methods declare, or the unit type when no method is fallible.
C15_SharedTypes ==
    (Generated /\ generator.response[1].shape = "Shared") =>
        /\ DeclaredOkTypes = {OkType(generator.response[1])}
        /\ IF DeclaredErrTypes = {}
           THEN ErrType(generator.response[1]) = UnitType
           ELSE DeclaredErrTypes = {ErrType(generator.response[1])}

\* A method that is not fallible comes first, a fallible method with the same
\* success type and a failure type other than unit follows: the shape is
\* Shared.
C15_Witness ==
    /\ Generated
    /\ Len(item) >= 2
    /\ item[1].result.tag = "NotResult"
    /\ item[2].result.tag = "Result"
    /\ item[2].result.err_type # Some(UnitType)
    /\ generator.response[1].shape = "Shared"

Variants(response) == {response.outputs[i] : i \in 1..Len(response.outputs)}

\* C25: the shape of the ResponseData and the Service's Response and Error
\* types do not depend on the order in which the methods are declared: for
\* every permutation of the method list ResponseData::new gives the same
\* shape, the same Response type, the same Error type and the same per-method
\* variants, in the permuted order.  (The Generator does not change once it is
\* made: the comparison is made in the state the expansion leaves.)
C25_OrderIndependent ==
    (Generated /\ \A t \in Calls : exchange[t].pc = "idle") =>
        \A ms \in Reorderings(generator.methods) :
            LET response == generator.response[1]
                permuted == ResponseDataNew(ms)
            IN  /\ permuted.shape = response.shape
                /\ OkType(permuted) = OkType(response)
                /\ ErrType(permuted) = ErrType(response)
                /\ Variants(permuted) = Variants(response)

\* The macro was expanded for a fallible method with a failure type other than
\* unit followed by a method that is not fallible, with the same success type:
\* the shape is Shared and the Error type is the failure type of the first.
C25_Witness ==
    /\ Generated
    /\ \A t \in Calls : exchange[t].pc = "idle"
    /\ Len(item) >= 2
    /\ item[1].result.tag = "Result" /\ item[1].result.err_type # Some(UnitType)
    /\ item[2].result.tag = "NotResult"
    /\ generator.response[1].shape = "Shared"
    /\ Some(ErrType(generator.response[1])) = item[1].result.err_type

Completed(t) == exchange[t].pc \in {"returned", "panicked"}

C18_PlainNeverFails ==
    \A t \in Calls :
        (Completed(t) /\ generator.methods[exchange[t].method].result.tag = "NotResult") =>
            /\ IsOk(exchange[t].response)
            /\ ConversionFromResult(generator.methods[exchange[t].method].result,
                                    exchange[t].response).panic = ""

\* The helper of a method that is not fallible has returned, in an interface
\* that has a fallible method too, while another helper's call is under way.
C18_Witness ==
    /\ Generated
    /\ DeclaredErrTypes # {}
    /\ \E t, u \in Calls :
          /\ exchange[t].pc = "returned"
          /\ generator.methods[exchange[t].method].result.tag = "NotResult"
          /\ exchange[u].pc = "called"

\* C19: applied to an `impl` block without methods the macro aborts with
\* "`impl` item has no methods" and generates nothing: ResponseData::new and
\* the maximum of the receiver types, which would panic on an empty list with
\* messages of their own, are not reached, and no Service exists to be called.
C19_EmptyInterfaceAborts ==
    (item = <<>> /\ generator.status # "none") =>
        /\ generator = Abort("impl item has no methods")
        /\ \A t \in Calls : exchange[t] = NoExchange

C19_Witness ==
    /\ item = <<>>
    /\ generator.status = "aborted"

\* C20: when two methods have the same name after the conversion to
\* CamelCase the macro aborts, so that the Request enum it generates never has
\* two variants of the same name.
C20_DuplicateMethodNameFails ==
    /\ (\E i, j \in 1..Len(item) :
            i # j /\ ToCamelCase(item[i].name) = ToCamelCase(item[j].name))
          => generator.status \in {"none", "aborted"}
    /\ \A i, j \in 1..Len(generator.request) :
          generator.request[i] = generator.request[j] => i = j

====
